---- MODULE Spec2Model ----
(* State-machine model of the Chat component (src/src/components/Chat.tsx). *)
(* Strings the component inspects (draft text, response fields, message     *)
(* text) are sequences of one-character strings, so that trim() and the     *)
(* template literal are computed; ids are TLA+ strings built with \o.       *)
EXTENDS Integers, Sequences, FiniteSets, TLC

\* ------------------------------------------------------------------ bounds
MaxMsgs == 4     \* longest message sequence explored
MaxLiveMsgs == 3 \* the same, where behaviours are explored under fairness
MaxClock == 1    \* largest reading of Date.now() explored

\* ------------------------------------------------------- values and strings
IsSpace(c) == c = " "
\* JS `undefined`: a one-element sequence whose element is not a character
undefined == <<"undefined">>
null == "null"
\* the file the user picks
Files == {"a.png"}

\* the texts the user types: empty, whitespace only, plain, and with
\* whitespace around it
Drafts == {<<>>, <<" ">>, <<"a">>, <<" ", "a", " ">>}

RECURSIVE trimStart(_)
trimStart(s) ==
  IF s = <<>> THEN s
  ELSE IF IsSpace(Head(s)) THEN trimStart(Tail(s)) ELSE s

RECURSIVE trimEnd(_)
trimEnd(s) ==
  IF s = <<>> THEN s
  ELSE IF IsSpace(s[Len(s)]) THEN trimEnd(SubSeq(s, 1, Len(s) - 1)) ELSE s

trim(s) == trimEnd(trimStart(s))

\* JS truthiness of an optional string: undefined and "" are falsy
Truthy(v) == v # undefined /\ v # <<>>

\* the text of line 17; its first character, the emoji U+1F44B, is written by
\* its code point
WelcomeText ==
  <<"U+1F44B", " ", "I", "'", "m", " ", "h", "e", "r", "e", " ", "t", "o",
    " ", "h", "e", "l", "p", " ", "a", "n", "a", "l", "y", "z", "e",
    " ", "X", "-", "r", "a", "y", " ", "i", "m", "a", "g", "e", "s",
    " ", "a", "n", "d", " ", "p", "r", "o", "v", "i", "d", "e", " ",
    "o", "r", "t", "h", "o", "p", "e", "d", "i", "c", " ", "s", "u",
    "g", "g", "e", "s", "t", "i", "o", "n", "s", ".", " ", "U", "p",
    "l", "o", "a", "d", " ", "a", "n", " ", "i", "m", "a", "g", "e",
    " ", "o", "r", " ", "a", "s", "k", " ", "y", "o", "u", "r", " ",
    "q", "u", "e", "r", "y", ".">>
ErrorPrefix ==
  <<"⚠", " ", "E", "r", "r", "o", "r", ":", " ">>
FetchErrorText ==
  <<"⚠", " ", "F", "a", "i", "l", "e", "d", " ", "t", "o", " ", "c",
    "o", "n", "n", "e", "c", "t", " ", "t", "o", " ", "t", "h", "e",
    " ", "s", "e", "r", "v", "e", "r", ".">>

\* --------------------------------------------------------------- the state
VARIABLES messages, input, selectedFile, isLoading, fileInputRef, requests,
          now, last

progVars == <<messages, input, selectedFile, isLoading, fileInputRef, requests>>
vars == <<messages, input, selectedFile, isLoading, fileInputRef, requests,
          now, last>>

\* `last` is history: the run of handleSubmit that made the latest step, with
\* the component's state before it, or Other after any other event
Other == [op |-> "other"]

\* snapshot of the component before a step
Pre == [messages |-> messages, input |-> input, selectedFile |-> selectedFile,
        isLoading |-> isLoading, fileInputRef |-> fileInputRef,
        requests |-> requests]

\* a message created when the clock reads t (Date.now() and new Date() of one
\* object literal are taken as one reading)
Message(t, suffix, text, sender, imageUrl) ==
  [id |-> ToString(t) \o suffix, text |-> text, sender |-> sender,
   timestamp |-> t, imageUrl |-> imageUrl]

\* what Date.now() may read next: `now` is the latest reading, and the clock
\* does not run backwards
Readings == {t \in 0..MaxClock : t >= now}

Init ==
  /\ now = 0
  /\ messages = <<[id |-> "1", text |-> WelcomeText, sender |-> "bot",
                   timestamp |-> 0, imageUrl |-> undefined]>>
  /\ input = <<>>
  /\ selectedFile = null
  /\ isLoading = FALSE
  /\ fileInputRef = null
  /\ requests = <<>>
  /\ last = [op |-> "init"]

\* ---------------------------------------------------------------- actions
\* text input onChange
setInput ==
  \E s \in Drafts :
    /\ s # input
    /\ input' = s
    /\ last' = Other
    /\ UNCHANGED <<messages, selectedFile, isLoading, fileInputRef, requests, now>>

\* file input onChange: the picker's selection changes to f (null: cleared)
onFileChange ==
  \E f \in Files \cup {null} :
    /\ f # fileInputRef
    /\ fileInputRef' = f
    /\ selectedFile' = f
    /\ last' = Other
    /\ UNCHANGED <<messages, input, isLoading, requests, now>>

\* ------------------------------------------------ handleSubmit, lines 33-58
\* faulty variant: the submit control is never disabled
SubmitAlwaysEnabled == TRUE

\* submit button: disabled={isLoading}; a disabled default button also blocks
\* implicit submission of the form
SubmitEnabled == ~isLoading

\* faulty variant: the guard tests the draft without trimming it
RejectedNoTrim(text, file) == text = <<>> /\ file = null

\* if (!input.trim() && !selectedFile) return;
Rejected(text, file) == trim(text) = <<>> /\ file = null

userMessage(t) == Message(t, "-user", input, "user", undefined)

\* the FormData of the request: the set of fields appended to it
formData ==
  (IF trim(input) # <<>> THEN [message |-> input] ELSE <<>>)
    @@ (IF selectedFile # null THEN [image |-> selectedFile] ELSE <<>>)

\* faulty variant: the handler does not call setInput('')
handleSubmitKeepsDraft(cap) ==
  /\ SubmitEnabled
  /\ last' = [op |-> "submit", pre |-> Pre]
  /\ IF Rejected(input, selectedFile)
     THEN UNCHANGED <<progVars, now>>
     ELSE /\ Len(messages) + 2 <= cap
          /\ \E t \in Readings :
               /\ now' = t
               /\ messages' = Append(messages, userMessage(t))
          /\ requests' = Append(requests,
                                [formData |-> formData, base |-> Len(messages)])
          /\ isLoading' = TRUE
          /\ selectedFile' = null
          /\ UNCHANGED <<input, fileInputRef>>

\* the handler up to its suspension at `await fetch(...)`; `base` records the
\* length of the message sequence before the submit (history); cap bounds the
\* message sequence explored
handleSubmitUpTo(cap) ==
  /\ SubmitEnabled
  /\ last' = [op |-> "submit", pre |-> Pre]
  /\ IF Rejected(input, selectedFile)
     THEN UNCHANGED <<progVars, now>>
     ELSE /\ Len(messages) + 2 <= cap
          /\ \E t \in Readings :
               /\ now' = t
               /\ messages' = Append(messages, userMessage(t))
          /\ input' = <<>>
          /\ requests' = Append(requests,
                                [formData |-> formData, base |-> Len(messages)])
          /\ isLoading' = TRUE
          /\ selectedFile' = null
          /\ UNCHANGED fileInputRef

\* ------------------------------------------------ settlement, lines 54-93
ResponseText == <<"R">>
ImageUrl == <<"/">>
ErrorText == <<"E">>

\* the JSON objects the server may answer with: each recognized field is
\* absent, the empty string or a non-empty string
Bodies ==
  [response : {undefined, <<>>, ResponseText},
   annotated_image_url : {undefined, <<>>, ImageUrl},
   error : {undefined, <<>>, ErrorText}]

\* how the awaited calls end: fetch or res.json() rejects; the body parses to
\* null (reading data.response throws); the body parses to a JSON value that
\* is no object (a number, a string, true: every field reads as undefined);
\* the body parses to an object
Outcomes ==
  {[kind |-> "reject"], [kind |-> "null"], [kind |-> "scalar"]}
    \cup {[kind |-> "object", data |-> d] : d \in Bodies}

NoFields ==
  [response |-> undefined, annotated_image_url |-> undefined, error |-> undefined]

\* what `data.<field>` reads after `const data = await res.json()`
Data(o) == IF o.kind = "object" THEN o.data ELSE NoFields

\* control reaches the catch block
Throws(o) == o.kind \in {"reject", "null"}

\* faulty variant: the text is data.response without the `|| ''` default
botMessageNoDefault(t, data) ==
  Message(t, "-bot", data.response, "bot", data.annotated_image_url)

botMessage(t, data) ==
  Message(t, "-bot", IF Truthy(data.response) THEN data.response ELSE <<>>,
          "bot", data.annotated_image_url)

errorMessage(t, data) ==
  Message(t, "-error", ErrorPrefix \o data.error, "bot", undefined)

fetchErrorMessage(t) ==
  Message(t, "-fetch-error", FetchErrorText, "bot", undefined)

\* faulty variant: the error check is an `if` of its own, not an `else if`
replyNoElse(t, o) ==
  IF Throws(o) THEN <<fetchErrorMessage(t)>>
  ELSE (IF Truthy(Data(o).response) \/ Truthy(Data(o).annotated_image_url)
        THEN <<botMessage(t, Data(o))>> ELSE <<>>)
       \o (IF Truthy(Data(o).error) THEN <<errorMessage(t, Data(o))>> ELSE <<>>)

\* faulty variant: the error field is checked before the success fields
replyErrorFirst(t, o) ==
  IF Throws(o) THEN <<fetchErrorMessage(t)>>
  ELSE IF Truthy(Data(o).error) THEN <<errorMessage(t, Data(o))>>
  ELSE IF Truthy(Data(o).response) \/ Truthy(Data(o).annotated_image_url)
       THEN <<botMessage(t, Data(o))>>
  ELSE <<>>

\* faulty variant: a body with no recognized field is reported like a failure
replyElseFallback(t, o) ==
  IF Throws(o) THEN <<fetchErrorMessage(t)>>
  ELSE IF Truthy(Data(o).response) \/ Truthy(Data(o).annotated_image_url)
       THEN <<botMessage(t, Data(o))>>
  ELSE IF Truthy(Data(o).error) THEN <<errorMessage(t, Data(o))>>
  ELSE <<fetchErrorMessage(t)>>

\* the messages the try/catch appends for an outcome (none or one)
reply(t, o) ==
  IF Throws(o) THEN <<fetchErrorMessage(t)>>
  ELSE IF Truthy(Data(o).response) \/ Truthy(Data(o).annotated_image_url)
       THEN <<botMessage(t, Data(o))>>
  ELSE IF Truthy(Data(o).error) THEN <<errorMessage(t, Data(o))>>
  ELSE <<>>

RemoveAt(s, i) == SubSeq(s, 1, i - 1) \o SubSeq(s, i + 1, Len(s))

\* faulty variant: setMessages replaces the sequence instead of spreading `prev`
settleReplaces ==
  \E i \in 1..Len(requests), o \in Outcomes, t \in Readings :
    /\ messages' = reply(t, o)
    /\ isLoading' = FALSE
    /\ fileInputRef' = null
    /\ requests' = RemoveAt(requests, i)
    /\ last' = [op |-> "settle", pre |-> Pre, outcome |-> o,
                request |-> requests[i]]
    /\ now' = t
    /\ UNCHANGED <<input, selectedFile>>

\* faulty variant: setIsLoading(false) ends the try block instead of sitting in finally
settleNoFinally ==
  \E i \in 1..Len(requests), o \in Outcomes, t \in Readings :
    /\ messages' = messages \o reply(t, o)
    /\ isLoading' = (isLoading /\ Throws(o))
    /\ fileInputRef' = null
    /\ requests' = RemoveAt(requests, i)
    /\ last' = [op |-> "settle", pre |-> Pre, outcome |-> o,
                request |-> requests[i]]
    /\ now' = t
    /\ UNCHANGED <<input, selectedFile>>

\* faulty variant: finally also calls setInput('')
settleClearsDraft ==
  \E i \in 1..Len(requests), o \in Outcomes, t \in Readings :
    /\ messages' = messages \o reply(t, o)
    /\ isLoading' = FALSE
    /\ fileInputRef' = null
    /\ requests' = RemoveAt(requests, i)
    /\ last' = [op |-> "settle", pre |-> Pre, outcome |-> o,
                request |-> requests[i]]
    /\ now' = t
    /\ input' = <<>>
    /\ UNCHANGED selectedFile

\* the handler from the settlement of its network call to the end of finally
settle ==
  \E i \in 1..Len(requests), o \in Outcomes, t \in Readings :
    /\ messages' = messages \o reply(t, o)
    /\ isLoading' = FALSE
    /\ fileInputRef' = null
    /\ requests' = RemoveAt(requests, i)
    /\ last' = [op |-> "settle", pre |-> Pre, outcome |-> o,
                request |-> requests[i]]
    /\ now' = t
    /\ UNCHANGED <<input, selectedFile>>

handleSubmit == handleSubmitUpTo(MaxMsgs)

Next == setInput \/ onFileChange \/ handleSubmit \/ settle

Spec == Init /\ [][Next]_vars

\* every network call eventually settles
handleSubmitLive == handleSubmitUpTo(MaxLiveMsgs)

NextLive == setInput \/ onFileChange \/ handleSubmitLive \/ settle

FairSpec == Init /\ [][NextLive]_vars /\ WF_vars(settle)

\* ------------------------------------------------------------- the claims
WhitespaceOnly(s) == \A k \in 1..Len(s) : s[k] = " "
NonEmpty(v) == v # undefined /\ Len(v) > 0
Submitted == last.op = "submit"
Accepted == Submitted /\ ~(WhitespaceOnly(last.pre.input) /\ last.pre.selectedFile = null)
Settled == last.op = "settle"
Added == SubSeq(messages, Len(last.pre.messages) + 1, Len(messages))

\* C1: a submit with an empty or whitespace-only draft and no file selected
\* leaves the messages, the draft, the selected file and the in-flight flag
\* unchanged and issues no request.
C1_EmptySubmitIsNoOp ==
  (Submitted /\ WhitespaceOnly(last.pre.input) /\ last.pre.selectedFile = null)
    => /\ messages = last.pre.messages
       /\ input = last.pre.input
       /\ selectedFile = last.pre.selectedFile
       /\ isLoading = last.pre.isLoading
       /\ requests = last.pre.requests

C1_Witness ==
  /\ Submitted
  /\ last.pre.input = <<" ">>
  /\ last.pre.selectedFile = null
  /\ Len(messages) > 1

Unrecognized(o) ==
  /\ o.kind \in {"object", "scalar"}
  /\ o.kind = "object" =>
       /\ ~NonEmpty(o.data.response)
       /\ ~NonEmpty(o.data.annotated_image_url)
       /\ ~NonEmpty(o.data.error)

C3_SettledClearsFile == Settled => (~isLoading /\ selectedFile = null)

\* C4: the message appended on settlement follows from the outcome: a
\* non-empty response or image URL gives that text ("" if absent) and that
\* URL (absent if none); only a non-empty error E gives the text
\* "<warning sign> Error: E" and no image; a rejected or throwing call gives
\* "<warning sign> Failed to connect to the server." and no image.
C4_BotMessageByOutcome ==
  Settled =>
    LET o == last.outcome
        m == messages[Len(messages)]
        one == Len(Added) = 1 /\ m.sender = "bot"
    IN /\ (o.kind = "object" /\ (NonEmpty(o.data.response)
                                  \/ NonEmpty(o.data.annotated_image_url))) =>
            /\ one
            /\ m.text = (IF o.data.response = undefined THEN <<>>
                         ELSE o.data.response)
            /\ m.imageUrl = o.data.annotated_image_url
       /\ (o.kind = "object" /\ ~NonEmpty(o.data.response)
             /\ ~NonEmpty(o.data.annotated_image_url)
             /\ NonEmpty(o.data.error)) =>
            /\ one
            /\ m.text = <<"⚠", " ", "E", "r", "r", "o", "r", ":", " ">>
                          \o o.data.error
            /\ m.imageUrl = undefined
       /\ o.kind \in {"reject", "null"} =>
            /\ one
            /\ m.text = FetchErrorText
            /\ m.imageUrl = undefined

C4_Witness ==
  /\ Settled
  /\ last.outcome.kind = "object"
  /\ last.outcome.data.response = undefined
  /\ last.outcome.data.annotated_image_url = ImageUrl
  /\ messages[Len(messages)].imageUrl = ImageUrl

IsSuccessMessage(m) == m.sender = "bot" /\ m.id = ToString(now) \o "-bot"
IsErrorMessage(m) ==
  /\ m.sender = "bot"
  /\ Len(m.text) >= Len(ErrorPrefix)
  /\ SubSeq(m.text, 1, Len(ErrorPrefix)) = ErrorPrefix

\* C5: for every response object at most one message is appended; with a
\* non-empty response or image URL it is the success message even if an
\* error field is present; the error message is appended only when both
\* success fields are absent or empty and error is non-empty.
C5_SuccessBeforeError ==
  (Settled /\ last.outcome.kind = "object") =>
    LET d == last.outcome.data
        success == NonEmpty(d.response) \/ NonEmpty(d.annotated_image_url)
    IN /\ Len(Added) <= 1
       /\ success => (Len(Added) = 1 /\ IsSuccessMessage(Added[1])
                        /\ ~IsErrorMessage(Added[1]))
       /\ \A k \in 1..Len(Added) :
            IsErrorMessage(Added[k]) => (~success /\ NonEmpty(d.error))

C5_Witness ==
  /\ Settled
  /\ last.outcome.kind = "object"
  /\ last.outcome.data.response = ResponseText
  /\ last.outcome.data.error = ErrorText
  /\ Len(Added) = 1

\* C6: a response object with none of response, annotated_image_url and error
\* appends no bot message: the sequence is 1 longer than before the submit,
\* and the in-flight flag is cleared.
C6_EmptyObjectDropped ==
  (Settled /\ last.outcome.kind = "object" /\ last.outcome.data = NoFields) =>
    /\ messages = last.pre.messages
    /\ Len(messages) = last.request.base + 1
    /\ messages[Len(messages)].sender = "user"
    /\ ~isLoading

C6_Witness ==
  /\ Settled
  /\ last.outcome.kind = "object"
  /\ last.outcome.data = NoFields
  /\ Len(messages) = 2

IsPrefix(s, u) == Len(s) <= Len(u) /\ SubSeq(u, 1, Len(s)) = s

\* C7: the first message is always the welcome message from bot, and every
\* step keeps the previous sequence as a prefix of the new one, adding at
\* most one message at the end.
C7_AppendOnly ==
  /\ [](/\ Len(messages) >= 1
        /\ messages[1].id = "1"
        /\ messages[1].sender = "bot"
        /\ messages[1].text = WelcomeText)
  /\ [][/\ IsPrefix(messages, messages')
        /\ Len(messages') <= Len(messages) + 1]_vars

C7_Witness ==
  /\ Len(messages) = 3
  /\ messages[2].sender = "user"
  /\ messages[3].sender = "bot"

\* C8: an accepted submit empties the draft in the step that appends the user
\* message, while its network call has not settled.
C8_DraftClearedAtDispatch ==
  Accepted =>
    /\ input = <<>>
    /\ messages = Append(last.pre.messages, messages[Len(messages)])
    /\ messages[Len(messages)].sender = "user"
    /\ messages[Len(messages)].text = last.pre.input
    /\ Len(requests) = Len(last.pre.requests) + 1

C8_Witness ==
  /\ Accepted
  /\ last.pre.input = <<" ", "a", " ">>
  /\ Len(requests) = 1

C10_OneRequestAtATime ==
  /\ Len(requests) <= 1
  /\ isLoading <=> Len(requests) = 1
  /\ Accepted => (~last.pre.isLoading /\ last.pre.requests = <<>>)

C10_Witness ==
  /\ isLoading
  /\ Len(requests) = 1
  /\ Len(messages) = 3

\* C11: a submission dispatched with a file selected leaves the selected-file
\* state holding that file while the request is in flight; the state is
\* emptied by settlement, not by dispatch.
C11_FileHeldUntilSettled ==
  (Accepted /\ last.pre.selectedFile # null) =>
    /\ isLoading
    /\ selectedFile = last.pre.selectedFile

\* C12: the request of an accepted submit has a text field iff the trimmed
\* draft is non-empty, holding the trimmed draft; it has a file field iff a
\* file was selected, holding that file; so it has at least one field.
C12_PayloadTrimmed ==
  Accepted =>
    LET fd == requests[Len(requests)].formData
    IN /\ ("message" \in DOMAIN fd) <=> ~WhitespaceOnly(last.pre.input)
       /\ ("message" \in DOMAIN fd) => fd.message = trim(last.pre.input)
       /\ ("image" \in DOMAIN fd) <=> last.pre.selectedFile # null
       /\ ("image" \in DOMAIN fd) => fd.image = last.pre.selectedFile
       /\ DOMAIN fd # {}

\* C13: the ids of the messages in the sequence are pairwise distinct,
\* whatever the (non-decreasing) readings of the clock.
C13_IdsDistinct ==
  \A i, j \in 1..Len(messages) :
    i # j => messages[i].id # messages[j].id

\* C14: a settlement appends at most one bot message and leaves the draft
\* (and the selected file) as they were, so that text typed while the request
\* was in flight is what the next accepted submit sends.
C14_SettleKeepsDraft ==
  /\ Settled =>
       /\ input = last.pre.input
       /\ selectedFile = last.pre.selectedFile
       /\ IsPrefix(last.pre.messages, messages)
       /\ Len(Added) <= 1
       /\ \A k \in 1..Len(Added) : Added[k].sender = "bot"
       /\ Len(requests) = Len(last.pre.requests) - 1
  /\ (Accepted /\ ~WhitespaceOnly(last.pre.input)) =>
       /\ requests[Len(requests)].formData.message = last.pre.input
       /\ messages[Len(messages)].text = last.pre.input

C14_Witness ==
  /\ Settled
  /\ last.pre.isLoading
  /\ input = <<" ", "a", " ">>
  /\ Len(Added) = 1

\* C15: whenever no request is in flight, the selected-file state and the
\* file-picker element hold the same file or are both empty.
C15_IdleFileAgrees == ~isLoading => selectedFile = fileInputRef

\* C16: with submits delivered only while the submit control is enabled,
\* every bot message but the welcome message directly follows a user
\* message, and there are no more such bot messages than user messages.
C16_ReplyFollowsUser ==
  /\ \A k \in 2..Len(messages) :
       messages[k].sender = "bot" => messages[k - 1].sender = "user"
  /\ Cardinality({k \in 2..Len(messages) : messages[k].sender = "bot"})
       <= Cardinality({k \in 1..Len(messages) : messages[k].sender = "user"})

C16_Witness ==
  /\ Len(messages) = 4
  /\ messages[2].sender = "user"
  /\ messages[3].sender = "user"
  /\ messages[4].sender = "bot"
====
